---- MODULE Spec2Model ----
(***************************************************************************)
(* PyChoice: selector matching against the call stack, specificity         *)
(* comparison, and rule resolution of a ChoiceFunction invocation.         *)
(*                                                                         *)
(* The call stack is kept innermost-first, as inspect.stack() returns it.  *)
(* A dict is a function from its keys; the empty dict is <<>>.             *)
(*                                                                         *)
(* Further parts: the trace recorder (trace_start, trace_stop, call_begin, *)
(* call_end), ChoiceContext scopes, class-method and Match selector items, *)
(* and the decorators func and impl.                                       *)
(***************************************************************************)
EXTENDS Integers, Sequences, FiniteSets, TLC

VARIABLES
    rules,      \* ChoiceFunction.rules, per target entry: the registered Rules
    stack,      \* the interpreter's call stack, innermost frame first
    raised,     \* the exception the last operation raised to its caller, or "none"
    trace,      \* trace_status.trace: Nothing, or the Tracing object [items, stack]
    returned,   \* the Trace the last operation returned, if it was trace_stop
    session,    \* history: what happened while the current session recorded
    active,     \* the value of the ContextVar ChoiceContext.active
    scopes,     \* the with-blocks in progress: their context types, innermost last
    registry,   \* funcs.registry: the ChoiceFunctions made by func, in order
    funcs,      \* ChoiceFunction.funcs, per target entry: the ids of its alternates
    generic     \* the selectors a, b given to generic_compare, and then its result

vars == <<rules, stack, raised, trace, returned, session, active, scopes, registry, funcs,
          generic>>

\* the state of the trace recorder, of the context scopes, of the decorators
tracing == <<trace, returned, session>>
contexts == <<active, scopes>>
decorated == <<registry, funcs>>

----------------------------------------------------------------------------
(* Bounds of the model *)

\* most frames on the call stack
MaxDepth == 4
\* most rules registered on one target entry
MaxRules == 2
\* longest selector the selector claims quantify over
MaxSelLen == 3
\* most events recorded of one trace session
MaxEvents == 6
\* most ChoiceFunctions in the registry
MaxRegistry == 4
\* most with-blocks in progress
MaxScopes == 3

----------------------------------------------------------------------------
(* The program's objects *)

None == "None"

\* None, where the value may else be an object with fields
Nothing == [none |-> TRUE]

\* target entries (ChoiceFunction objects made by @func)
Targets == {"F", "G"}

\* plain functions that appear on the stack as callers
Callers == {"A", "B"}

\* ChoiceFunction.interface: the default ChoiceFuncImplementation of a target
Interface(t) == IF t = "F" THEN "F.interface" ELSE "G.interface"

\* alternate implementations registered with @impl(implements=F): F.funcs
Alternates == {"X"}

\* every ChoiceFuncImplementation object
Implementations == {Interface(t) : t \in Targets} \cup Alternates

\* an object that is neither a ChoiceFunction nor a ChoiceFuncImplementation
Bad == "bad"

\* the code object of ChoiceFunction.__call__, shared by every target entry
CallCode == "__call__"

EmptyDict == <<>>

\* dict.update: d with the entries of u written over it
Update(d, u) == [k \in (DOMAIN d) \cup (DOMAIN u) |-> IF k \in DOMAIN u THEN u[k] ELSE d[k]]

\* the declared signature of every implementation here is f(p=0)
Defaults == [k \in {"p"} |-> 0]

Reverse(s) == [i \in 1..Len(s) |-> s[Len(s) + 1 - i]]

\* the parameters of that signature, in declaration order
Params == <<"p">>

\* inspect.Signature.bind followed by apply_defaults: ok is FALSE where bind
\* raises TypeError (too many positional arguments, an unknown keyword, or a
\* parameter given both positionally and by keyword)
Bind(args, kwargs) ==
    LET names == {Params[i] : i \in 1..Len(Params)}
        ok == /\ Len(args) <= Len(Params)
              /\ DOMAIN kwargs \subseteq names
              /\ \A i \in 1..Len(args) : Params[i] \notin DOMAIN kwargs
        positional == [k \in {Params[i] : i \in 1..Len(args)} |->
                          args[CHOOSE i \in 1..Len(args) : Params[i] = k]]
    IN IF ok THEN [ok |-> TRUE, arguments |-> Update(Update(Defaults, positional), kwargs)]
       ELSE [ok |-> FALSE, arguments |-> EmptyDict]

\* classes with methods: Child is a subclass of Base, overrides m and inherits n
Classes == {"Base", "Child"}
issubclass(c, d) == c = d \/ (c = "Child" /\ d = "Base")

\* the code objects of the methods, named by their co_qualname
MethodCodes == {"Base.m", "Base.n", "Child.m"}

\* code.co_name
co_name(code) ==
    CASE code \in {"Base.m", "Child.m"} -> "m"
      [] code = "Base.n" -> "n"
      [] OTHER -> code

\* the class that co_qualname.split(".")[0] names in the module, or None for a
\* code object whose qualified name has one part
qualname_class(code) ==
    CASE code \in {"Base.m", "Base.n"} -> "Base"
      [] code = "Child.m" -> "Child"
      [] OTHER -> None

\* context types: subclasses of ChoiceContext, none of which redefines active
Contexts == {"CtxX", "CtxY"}

----------------------------------------------------------------------------
(* Frames *)

\* the frame of a plain function, or of an implementation's body, with its locals
FunctionFrame(code, locals) == [code |-> code, locals |-> locals]

\* the frame of ChoiceFunction.__call__ with its local variables: self and kwargs
\* on entry; matched (the sorted rules of line 481), rules (after the pruning of
\* line 490), impl and choice_kwargs once resolution has run. A list of
\* MatchedRules is kept as the list of the positions of their rules in
\* ChoiceFunction.rules: the stack below the frame determines the rest of them
CallFrame(t, args, kwargs, matched, pruned, impl, ckw) ==
    [code |-> CallCode, self |-> t, args |-> args, kwargs |-> kwargs, matched |-> matched,
     rules |-> pruned, impl |-> impl, choice_kwargs |-> ckw]

\* the __call__ frame as inspect.stack() sees it at line 480
EntryFrame(t, args, kwargs) == CallFrame(t, args, kwargs, <<>>, <<>>, None, EmptyDict)

\* the frame of a method executing on an instance of class cls
MethodFrame(code, cls) == FunctionFrame(code, [k \in {"self"} |-> cls])

\* frame_info.frame.f_locals
f_locals(frame) ==
    IF frame.code = CallCode THEN [k \in (DOMAIN frame) \ {"code"} |-> frame[k]]
    ELSE frame.locals

----------------------------------------------------------------------------
(* Selector items *)

FunctionSelectorItem(f) == [kind |-> "fn", func |-> f]
CallableSelectorItem(t) == [kind |-> "cf", func |-> t]
ClassSelectorItem(cls, func_name) == [kind |-> "cls", cls |-> cls, func_name |-> func_name]
ChoiceContextSelectorItem(context) == [kind |-> "ctx", context |-> context]

RECURSIVE new_selector_item(_)

\* Match(func, **kwargs): the Match selector item
MatchItem(func, kwargs) ==
    [kind |-> "match", item |-> new_selector_item(func), match_kwargs |-> kwargs]

\* the Match objects and the (class, method name) tuples that are written in
\* selectors, named by their source text
MatchObjects == {"Match(F)", "Match(F, p=0)", "Match(F, p=5)", "Match(F, z=1)"}
ClassTuples == {"(Base, m)", "(Base, n)", "(Child, m)", "(Child, n)"}

MatchObject(x) ==
    CASE x = "Match(F)" -> MatchItem("F", EmptyDict)
      [] x = "Match(F, p=0)" -> MatchItem("F", [k \in {"p"} |-> 0])
      [] x = "Match(F, p=5)" -> MatchItem("F", [k \in {"p"} |-> 5])
      [] x = "Match(F, z=1)" -> MatchItem("F", [k \in {"z"} |-> 1])

ClassTuple(x) ==
    CASE x = "(Base, m)" -> <<"Base", "m">>
      [] x = "(Base, n)" -> <<"Base", "n">>
      [] x = "(Child, m)" -> <<"Child", "m">>
      [] x = "(Child, n)" -> <<"Child", "n">>

\* new_selector_item: a context type, a (class, method name) tuple, a
\* SelectorItem as it is, a plain function (it has __code__), or a ChoiceFunction
new_selector_item(x) ==
    CASE x \in Contexts -> ChoiceContextSelectorItem(x)
      [] x \in ClassTuples -> ClassSelectorItem(ClassTuple(x)[1], ClassTuple(x)[2])
      [] x \in MatchObjects -> MatchObject(x)
      [] x \in Callers -> FunctionSelectorItem(x)
      [] OTHER -> CallableSelectorItem(x)

\* collect_captures changed: the defaults of the signature are not applied
collect_captures_no_defaults(item, frame) ==
    IF item.kind = "cf" /\ item.func \in Targets
    THEN LET bound_args == Bind(frame.args, frame.kwargs)
         IN IF bound_args.ok
            THEN [k \in {Params[i] : i \in 1..Len(frame.args)} \cup DOMAIN frame.kwargs |->
                     bound_args.arguments[k]]
            ELSE f_locals(frame)
    ELSE f_locals(frame)

\* Selector._collect_captures
collect_captures(item, frame) ==
    IF item.kind = "cf" /\ item.func \in Targets
    THEN LET bound_args == Bind(frame.args, frame.kwargs)
         IN IF bound_args.ok THEN bound_args.arguments ELSE f_locals(frame)
    ELSE f_locals(frame)

\* ItemMatches changed: a target entry's item matches the frame of every
\* target entry
RECURSIVE ItemMatches_any_entry(_, _)
ItemMatches_any_entry(item, frame) ==
    CASE item.kind = "fn" -> item.func = frame.code
      [] item.kind = "cf" -> frame.code = CallCode
      [] item.kind = "ctx" -> active
      [] item.kind = "cls" ->
            /\ co_name(frame.code) = item.func_name
            /\ qualname_class(frame.code) # None
            /\ issubclass(qualname_class(frame.code), item.cls)
      [] item.kind = "match" ->
            /\ ItemMatches_any_entry(item.item, frame)
            /\ \/ DOMAIN item.match_kwargs = {}
               \/ LET captured == collect_captures(item.item, frame)
                  IN \A key \in DOMAIN item.match_kwargs :
                        /\ key \in DOMAIN captured
                        /\ captured[key] = item.match_kwargs[key]

\* SelectorItem.matches, by variant
RECURSIVE ItemMatches(_, _)
ItemMatches(item, frame) ==
    CASE item.kind = "fn" -> item.func = frame.code
      [] item.kind = "cf" ->
            /\ frame.code = CallCode
            /\ item.func = frame.self
      [] item.kind = "ctx" -> active   \* context.active is ChoiceContext.active
      [] item.kind = "cls" ->
            /\ co_name(frame.code) = item.func_name
            /\ qualname_class(frame.code) # None
            /\ issubclass(qualname_class(frame.code), item.cls)
      [] item.kind = "match" ->
            /\ ItemMatches(item.item, frame)
            /\ \/ DOMAIN item.match_kwargs = {}
               \/ LET captured == collect_captures(item.item, frame)
                  IN \A key \in DOMAIN item.match_kwargs :
                        /\ key \in DOMAIN captured
                        /\ captured[key] = item.match_kwargs[key]

----------------------------------------------------------------------------
(* Rules *)

\* the value a rule's vals function returns: None, or the pair (impl, kwargs)
Declines == [applies |-> FALSE, impl |-> None, kwargs |-> EmptyDict]
Produces(impl, kwargs) == [applies |-> TRUE, impl |-> impl, kwargs |-> kwargs]

Rule(selector, impl, vals) == [selector |-> selector, impl |-> impl, vals |-> vals]

\* the positions in ChoiceFunction.rules of the rules of a list of MatchedRules
Positions(ms) == [n \in 1..Len(ms) |-> ms[n].idx]

\* MatchedRule changed: a rule that declines stands for the default of F
MatchedRule_declined_is_default(rule, idx, captures) ==
    [rule |-> rule, idx |-> idx, captures |-> captures,
     impl |-> IF rule.vals.applies THEN rule.vals.impl ELSE Interface("F"),
     vals |-> IF rule.vals.applies THEN rule.vals.kwargs ELSE EmptyDict]

\* MatchedRule.__init__; idx is the rule's position in ChoiceFunction.rules
MatchedRule(rule, idx, captures) ==
    [rule |-> rule, idx |-> idx, captures |-> captures,
     impl |-> IF rule.vals.applies THEN rule.vals.impl ELSE None,
     vals |-> IF rule.vals.applies THEN rule.vals.kwargs ELSE EmptyDict]

----------------------------------------------------------------------------
(* Selector.matches *)

NoMatch == [matched |-> FALSE, captures |-> <<>>]
Match(captures) == [matched |-> TRUE, captures |-> captures]

\* matches_loop changed: after a match the next item is tried on the same frame
RECURSIVE matches_loop_same_frame(_, _, _, _, _)
matches_loop_same_frame(items, stack_info, si, fi, captures) ==
    IF fi > Len(stack_info) THEN NoMatch
    ELSE IF ItemMatches(items[si], stack_info[fi])
         THEN LET caps == Append(captures, collect_captures(items[si], stack_info[fi]))
              IN IF si = 1 THEN Match(Reverse(caps))
                 ELSE matches_loop_same_frame(items, stack_info, si - 1, fi, caps)
         ELSE matches_loop_same_frame(items, stack_info, si, fi + 1, captures)

\* the loop of lines 210-218: fi is the next frame, si the selector index
RECURSIVE matches_loop(_, _, _, _, _)
matches_loop(items, stack_info, si, fi, captures) ==
    IF fi > Len(stack_info) THEN NoMatch
    ELSE IF ItemMatches(items[si], stack_info[fi])
         THEN LET caps == Append(captures, collect_captures(items[si], stack_info[fi]))
              IN IF si = 1 THEN Match(Reverse(caps))
                 ELSE matches_loop(items, stack_info, si - 1, fi + 1, caps)
         ELSE matches_loop(items, stack_info, si, fi + 1, captures)

\* matches changed: the early return of lines 204-206 is missing, so that an
\* empty selector finds no frame to return from
matches_no_empty_case(items, stack_info) ==
    IF Len(items) = 0 THEN NoMatch
    ELSE matches_loop(items, stack_info, Len(items), 1, <<>>)

matches(items, stack_info) ==
    IF Len(items) = 0 THEN Match(<<>>)
    ELSE matches_loop(items, stack_info, Len(items), 1, <<>>)

----------------------------------------------------------------------------
(* Selector.compare *)

\* compare_loop changed: the exhausted selector is ranked more specific
RECURSIVE compare_loop_exhausted_wins(_, _, _, _, _, _)
compare_loop_exhausted_wins(a, b, stack_info, ai, bi, fi) ==
    IF fi > Len(stack_info) THEN 0
    ELSE IF ai < 1 /\ bi < 1 THEN 0
    ELSE IF ai < 1 THEN 1
    ELSE IF bi < 1 THEN -1
    ELSE LET a_matches == ItemMatches(a[ai], stack_info[fi])
             b_matches == ItemMatches(b[bi], stack_info[fi])
         IN IF ~a_matches /\ ~b_matches
            THEN compare_loop_exhausted_wins(a, b, stack_info, ai, bi, fi + 1)
            ELSE IF a_matches /\ b_matches
            THEN compare_loop_exhausted_wins(a, b, stack_info, ai - 1, bi - 1, fi + 1)
            ELSE IF ~a_matches /\ b_matches THEN -1
            ELSE 1

\* compare_loop changed: the test for both selectors being exhausted is missing
RECURSIVE compare_loop_no_equal_exit(_, _, _, _, _, _)
compare_loop_no_equal_exit(a, b, stack_info, ai, bi, fi) ==
    IF fi > Len(stack_info) THEN 0
    ELSE IF ai < 1 THEN -1
    ELSE IF bi < 1 THEN 1
    ELSE LET a_matches == ItemMatches(a[ai], stack_info[fi])
             b_matches == ItemMatches(b[bi], stack_info[fi])
         IN IF ~a_matches /\ ~b_matches
            THEN compare_loop_no_equal_exit(a, b, stack_info, ai, bi, fi + 1)
            ELSE IF a_matches /\ b_matches
            THEN compare_loop_no_equal_exit(a, b, stack_info, ai - 1, bi - 1, fi + 1)
            ELSE IF ~a_matches /\ b_matches THEN -1
            ELSE 1

\* compare_loop changed: when both items match the frame, only a's index moves
RECURSIVE compare_loop_b_not_advanced(_, _, _, _, _, _)
compare_loop_b_not_advanced(a, b, stack_info, ai, bi, fi) ==
    IF fi > Len(stack_info) THEN 0
    ELSE IF ai < 1 /\ bi < 1 THEN 0
    ELSE IF ai < 1 THEN -1
    ELSE IF bi < 1 THEN 1
    ELSE LET a_matches == ItemMatches(a[ai], stack_info[fi])
             b_matches == ItemMatches(b[bi], stack_info[fi])
         IN IF ~a_matches /\ ~b_matches
            THEN compare_loop_b_not_advanced(a, b, stack_info, ai, bi, fi + 1)
            ELSE IF a_matches /\ b_matches
            THEN compare_loop_b_not_advanced(a, b, stack_info, ai - 1, bi, fi + 1)
            ELSE IF ~a_matches /\ b_matches THEN -1
            ELSE 1

\* the loop of lines 274-295: ai, bi are the selector indexes, fi the next frame
RECURSIVE compare_loop(_, _, _, _, _, _)
compare_loop(a, b, stack_info, ai, bi, fi) ==
    IF fi > Len(stack_info) THEN 0
    ELSE IF ai < 1 /\ bi < 1 THEN 0
    ELSE IF ai < 1 THEN -1
    ELSE IF bi < 1 THEN 1
    ELSE LET a_matches == ItemMatches(a[ai], stack_info[fi])
             b_matches == ItemMatches(b[bi], stack_info[fi])
         IN IF ~a_matches /\ ~b_matches
            THEN compare_loop(a, b, stack_info, ai, bi, fi + 1)
            ELSE IF a_matches /\ b_matches
            THEN compare_loop(a, b, stack_info, ai - 1, bi - 1, fi + 1)
            ELSE IF ~a_matches /\ b_matches THEN -1
            ELSE 1

\* compare changed: the selector with more items is the more specific
compare_by_length(a, b, stack_info) ==
    IF Len(a) < Len(b) THEN -1 ELSE IF Len(a) > Len(b) THEN 1
    ELSE compare_loop(a, b, stack_info, Len(a), Len(b), 1)

\* Selector.compare
compare(a, b, stack_info) == compare_loop(a, b, stack_info, Len(a), Len(b), 1)

----------------------------------------------------------------------------
(* Selector.generic_compare *)

\* SelectorItem.__eq__, by variant: the same type and the same fields
item_eq(x, y) == x.kind = y.kind /\ x = y

\* generic_compare_loop changed: the two results are exchanged
RECURSIVE generic_compare_loop_exchanged(_, _, _, _)
generic_compare_loop_exchanged(a, b, ai, bi) ==
    IF ai >= 1 /\ bi >= 1
    THEN IF item_eq(a[ai], b[bi])
         THEN generic_compare_loop_exchanged(a, b, ai - 1, bi - 1)
         ELSE 0
    ELSE IF ai >= 1 THEN 1
    ELSE IF bi >= 1 THEN -1
    ELSE 0

\* the loop of lines 310-316 and the returns of lines 318-324
RECURSIVE generic_compare_loop(_, _, _, _)
generic_compare_loop(a, b, ai, bi) ==
    IF ai >= 1 /\ bi >= 1
    THEN IF item_eq(a[ai], b[bi])
         THEN generic_compare_loop(a, b, ai - 1, bi - 1)
         ELSE 0
    ELSE IF ai >= 1 THEN -1
    ELSE IF bi >= 1 THEN 1
    ELSE 0

generic_compare(a, b) == generic_compare_loop(a, b, Len(a), Len(b))

\* a.generic_compare(b) is called
GenericCompare ==
    /\ DOMAIN generic = {"a", "b"}
    /\ generic' = [a |-> generic.a, b |-> generic.b,
                   cmp |-> generic_compare(generic.a, generic.b)]
    /\ UNCHANGED <<rules, stack, raised, tracing, contexts, decorated>>

----------------------------------------------------------------------------
(* ChoiceFunction._sorted_selectors *)

\* the matching loop of lines 463-467: the MatchedRules, in registration order
RECURSIVE matched_rules(_, _, _)
matched_rules(rs, stack_info, i) ==
    IF i > Len(rs) THEN <<>>
    ELSE LET m == matches(rs[i].selector, stack_info)
             rest == matched_rules(rs, stack_info, i + 1)
         IN IF m.matched THEN <<MatchedRule(rs[i], i, m.captures)>> \o rest ELSE rest

\* rule_lt changed: a rule also sorts before a rule of equal specificity
rule_le(a, b, stack_info) == compare(a.rule.selector, b.rule.selector, stack_info) <= 0

\* the key order of cmp_to_key(compare): a sorts before b iff compare(a, b) < 0
rule_lt(a, b, stack_info) == compare(a.rule.selector, b.rule.selector, stack_info) < 0

\* x put into the sorted list s behind every element it is not less than
RECURSIVE insert_sorted(_, _, _)
insert_sorted(s, x, stack_info) ==
    IF Len(s) = 0 THEN <<x>>
    ELSE IF rule_lt(x, s[Len(s)], stack_info)
         THEN Append(insert_sorted(SubSeq(s, 1, Len(s) - 1), x, stack_info), s[Len(s)])
         ELSE Append(s, x)

\* sorted(rules, key=cmp_to_key(compare)) of line 475: a stable sort, computed
\* by insertion from the left
RECURSIVE sorted(_, _)
sorted(ms, stack_info) ==
    IF Len(ms) = 0 THEN <<>>
    ELSE insert_sorted(sorted(SubSeq(ms, 1, Len(ms) - 1), stack_info), ms[Len(ms)], stack_info)

sorted_selectors(t, stack_info) == sorted(matched_rules(rules[t], stack_info, 1), stack_info)

----------------------------------------------------------------------------
(* ChoiceFunction.__call__ *)

\* best_impl changed: the sorted list is scanned from its least specific rule
RECURSIVE best_impl_forward(_, _, _)
best_impl_forward(t, ms, i) ==
    IF i < 1 THEN Interface(t)
    ELSE IF ms[Len(ms) + 1 - i].impl # None THEN ms[Len(ms) + 1 - i].impl
    ELSE best_impl_forward(t, ms, i - 1)

\* lines 483-487: the impl of the last rule of the sorted list that has one
RECURSIVE best_impl(_, _, _)
best_impl(t, ms, i) ==
    IF i < 1 THEN Interface(t)
    ELSE IF ms[i].impl # None THEN ms[i].impl
    ELSE best_impl(t, ms, i - 1)

\* prune changed: the rules that name no implementation are dropped too
prune_same_impl_only(ms, impl) ==
    LET keep(r) == r.rule.impl = impl
    IN SelectSeq(ms, keep)

\* line 490: the rules kept for the argument overrides
prune(ms, impl) ==
    LET keep(r) == r.rule.impl = impl \/ r.rule.impl = None
    IN SelectSeq(ms, keep)

\* rule_kwargs changed: the rules are applied from the most specific to the least
RECURSIVE rule_kwargs_reversed(_, _)
rule_kwargs_reversed(rs, i) ==
    IF i < 1 THEN EmptyDict
    ELSE Update(rs[i].vals, rule_kwargs_reversed(rs, i - 1))

\* the loop of lines 383-385: the rules' values, a later rule's over an earlier's
RECURSIVE rule_kwargs(_, _)
rule_kwargs(rs, i) ==
    IF i < 1 THEN EmptyDict
    ELSE Update(rule_kwargs(rs, i - 1), rs[i].vals)

\* choice_kwargs changed: the rules' values are written over the caller's
choice_kwargs_rules_last(rs, kwargs) == Update(kwargs, rule_kwargs(rs, Len(rs)))

\* ChoiceFuncImplementation.choice_kwargs
choice_kwargs(rs, kwargs) == Update(rule_kwargs(rs, Len(rs)), kwargs)

\* callee changed: an object of neither type falls back to F's default
callee_falls_back(impl) ==
    IF impl \in Implementations THEN impl
    ELSE IF impl \in Targets THEN Interface(impl)
    ELSE Interface("F")

\* lines 492-497: the implementation object that is called, or Bad for NonRule
callee(impl) ==
    IF impl \in Implementations THEN impl
    ELSE IF impl \in Targets THEN Interface(impl)
    ELSE Bad

\* keyword arguments a caller passes
CallerKwargs == {EmptyDict, [k \in {"p"} |-> 3]}

\* TraceItem.__init__; stack_info is left out of the node
TraceItem(t, impl, rs, args, kwargs, ckw) ==
    [func |-> t, impl |-> impl, rules |-> rs, args |-> args, kwargs |-> kwargs,
     choice_kwargs |-> ckw, items |-> <<>>]

\* TraceStatus.call_begin, with Tracing.begin
call_begin(item) ==
    IF trace = Nothing THEN trace ELSE [trace EXCEPT !.stack = Append(@, item)]

\* end changed: the ended node always goes to the top-level list
end_always_top_level(tr) ==
    [items |-> Append(tr.items, tr.stack[Len(tr.stack)]),
     stack |-> SubSeq(tr.stack, 1, Len(tr.stack) - 1)]

\* Tracing.end on a stack that is not empty
end(tr) ==
    IF Len(tr.stack) = 1
    THEN [items |-> Append(tr.items, tr.stack[1]), stack |-> <<>>]
    ELSE LET ended == tr.stack[Len(tr.stack)]
             rest == SubSeq(tr.stack, 1, Len(tr.stack) - 1)
         IN [items |-> tr.items,
             stack |-> [rest EXCEPT ![Len(rest)].items = Append(@, ended)]]

\* history: while a session records, the entries and exits of invocations
Event(op, t) == [op |-> op, func |-> t]
Observe(events) ==
    IF trace = Nothing THEN session ELSE [session EXCEPT !.events = @ \o events]

\* t(*args, **kwargs): resolution, then the body of the chosen implementation
\* starts; NonRule is raised before call_begin, and the TypeError of a call
\* that cannot be bound to the implementation's signature after it
Call(t, args, kwargs) ==
    LET stack_info == <<EntryFrame(t, args, kwargs)>> \o stack
        ms == sorted_selectors(t, stack_info)
        impl == best_impl(t, ms, Len(ms))
        pruned == prune(ms, impl)
        func == callee(impl)
        ckw == choice_kwargs(pruned, kwargs)
        bound == Bind(args, ckw)
    IN /\ Len(stack) + 2 <= MaxDepth
       /\ trace # Nothing => Len(session.events) + 2 <= MaxEvents
       /\ returned' = Nothing
       /\ UNCHANGED generic
       /\ UNCHANGED <<rules, contexts, decorated>>
       /\ IF func = Bad
          THEN /\ raised' = "NonRule"
               /\ session' = Observe(<<Event("begin", t), Event("raise", t)>>)
               /\ UNCHANGED <<stack, trace>>
          ELSE /\ trace' = call_begin(TraceItem(t, func, Positions(pruned), args, kwargs, ckw))
               /\ IF bound.ok
                  THEN /\ stack' = <<FunctionFrame(func, bound.arguments),
                                     CallFrame(t, args, kwargs, Positions(ms),
                                               Positions(pruned), func, ckw)>> \o stack
                       /\ raised' = "none"
                       /\ session' = Observe(<<Event("begin", t)>>)
                  ELSE /\ raised' = "TypeError"
                       /\ session' = Observe(<<Event("begin", t), Event("raise", t)>>)
                       /\ UNCHANGED stack

\* a plain function is called
Enter(f) ==
    /\ Len(stack) < MaxDepth
    /\ stack' = <<FunctionFrame(f, EmptyDict)>> \o stack
    /\ raised' = "none"
    /\ returned' = Nothing
    /\ UNCHANGED generic
    /\ UNCHANGED <<rules, trace, session, contexts, decorated>>

\* the method with the code object code is called on an instance of cls, by
\* attribute lookup or through super(): cls is the code's class or inherits it
EnterMethod(code, cls) ==
    /\ Len(stack) < MaxDepth
    /\ issubclass(cls, qualname_class(code))
    /\ stack' = <<MethodFrame(code, cls)>> \o stack
    /\ raised' = "none"
    /\ returned' = Nothing
    /\ UNCHANGED generic
    /\ UNCHANGED <<rules, trace, session, contexts, decorated>>

\* every with-block of the innermost frame is left: a frame is not left while
\* a with-block in it is open
BlocksLeft == IF scopes = <<>> THEN TRUE ELSE scopes[Len(scopes)].depth < Len(stack)

\* Return changed: call_end on an empty session stack does nothing
Return_end_tolerates_empty ==
    /\ Len(stack) > 0
    /\ BlocksLeft
    /\ returned' = Nothing
    /\ UNCHANGED generic
    /\ UNCHANGED <<rules, contexts, decorated>>
    /\ IF stack[1].code \in Implementations
       THEN /\ stack' = SubSeq(stack, 3, Len(stack))
            /\ raised' = "none"
            /\ IF trace = Nothing
               THEN UNCHANGED <<trace, session>>
               ELSE IF trace.stack = <<>>
               THEN /\ session' = Observe(<<Event("end", stack[2].self)>>)
                    /\ UNCHANGED trace
               ELSE /\ trace' = end(trace)
                    /\ session' = Observe(<<Event("end", stack[2].self)>>)
       ELSE /\ stack' = Tail(stack)
            /\ raised' = "none"
            /\ UNCHANGED <<trace, session>>

\* the innermost function returns; an implementation's body returns through
\* lines 502-503 of the __call__ frame that called it, where call_end raises
\* MismatchedTrace if the session's stack is empty
Return ==
    /\ Len(stack) > 0
    /\ BlocksLeft
    /\ returned' = Nothing
    /\ UNCHANGED generic
    /\ UNCHANGED <<rules, contexts, decorated>>
    /\ IF stack[1].code \in Implementations
       THEN /\ stack' = SubSeq(stack, 3, Len(stack))
            /\ IF trace = Nothing
               THEN /\ raised' = "none"
                    /\ UNCHANGED <<trace, session>>
               ELSE IF trace.stack = <<>>
               THEN /\ raised' = "MismatchedTrace"
                    /\ session' = Observe(<<Event("raise", stack[2].self)>>)
                    /\ UNCHANGED trace
               ELSE /\ raised' = "none"
                    /\ trace' = end(trace)
                    /\ session' = Observe(<<Event("end", stack[2].self)>>)
       ELSE /\ stack' = Tail(stack)
            /\ raised' = "none"
            /\ UNCHANGED <<trace, session>>

\* the body of the innermost implementation raises an exception, which leaves
\* the __call__ frame at line 501 and is caught by the caller
Raise ==
    /\ Len(stack) > 0
    /\ stack[1].code \in Implementations
    /\ BlocksLeft
    /\ stack' = SubSeq(stack, 3, Len(stack))
    /\ raised' = "Error"
    /\ returned' = Nothing
    /\ UNCHANGED generic
    /\ session' = Observe(<<Event("raise", stack[2].self)>>)
    /\ UNCHANGED <<rules, trace, contexts, decorated>>

\* with context(): is entered in the innermost frame: ChoiceContext.__enter__
EnterContext(context) ==
    /\ Len(scopes) < MaxScopes
    /\ active' = TRUE
    /\ scopes' = Append(scopes, [context |-> context, depth |-> Len(stack)])
    /\ raised' = "none"
    /\ returned' = Nothing
    /\ UNCHANGED generic
    /\ UNCHANGED <<rules, stack, trace, session, decorated>>

\* the innermost with-block of the innermost frame is left, at its end or by
\* an exception raised in it: ChoiceContext.__exit__, which returns None, so
\* that the exception goes on to the code around the block
ExitContext(exception) ==
    /\ scopes # <<>>
    /\ scopes[Len(scopes)].depth = Len(stack)
    /\ active' = FALSE
    /\ scopes' = SubSeq(scopes, 1, Len(scopes) - 1)
    /\ raised' = IF exception THEN "Error" ELSE "none"
    /\ returned' = Nothing
    /\ UNCHANGED generic
    /\ UNCHANGED <<rules, stack, trace, session, decorated>>

\* trace_start: TraceStatus.start
TraceStart ==
    /\ trace' = [items |-> <<>>, stack |-> <<>>]
    /\ returned' = Nothing
    /\ UNCHANGED generic
    /\ session' = [events |-> <<>>, during |-> \E i \in 1..Len(stack) : stack[i].code = CallCode]
    /\ raised' = "none"
    /\ UNCHANGED <<rules, stack, contexts, decorated>>

\* trace_stop: TraceStatus.stop, returning Trace(trace)
TraceStop ==
    /\ returned' = [items |-> IF trace = Nothing THEN <<>> ELSE trace.items]
    /\ UNCHANGED generic
    /\ trace' = Nothing
    /\ session' = IF trace = Nothing THEN [events |-> <<>>, during |-> FALSE]
                  ELSE [session EXCEPT !.during =
                           @ \/ \E i \in 1..Len(stack) : stack[i].code = CallCode]
    /\ raised' = "none"
    /\ UNCHANGED <<rules, stack, contexts, decorated>>

----------------------------------------------------------------------------
(* Registration *)

\* the selectors rules are registered with, as the user writes them
RuleSelectors == {<<"F">>, <<"A", "F">>}

\* new_selector
new_selector(xs) == [i \in 1..Len(xs) |-> new_selector_item(xs[i])]

\* SelectorItem.get_callable, by variant
RECURSIVE get_callable(_)
get_callable(item) ==
    CASE item.kind \in {"fn", "cf"} -> item.func
      [] item.kind = "match" -> get_callable(item.item)
      [] OTHER -> None

\* Selector.choice_function: the callable of the last item
choice_function(sel) == get_callable(sel[Len(sel)])

\* the keyword overrides rule() is called with
RuleKwargs == {EmptyDict, [k \in {"p"} |-> 1]}

\* ChoiceFunction._add_rule
add_rule(t, rule) == [rules EXCEPT ![t] = Append(@, rule)]

\* rule(selector, impl, **kwargs), run at module level
RegisterRule(xs, impl, kwargs) ==
    LET processed_impl == IF impl \in Targets THEN Interface(impl) ELSE impl
        sel == new_selector(xs)
        t == choice_function(sel)
    IN /\ stack = <<>>
       /\ Len(rules[t]) < MaxRules
       /\ IF impl # None /\ impl \notin Targets /\ impl \notin Implementations
          THEN /\ raised' = "NonRule"
               /\ UNCHANGED <<rules, stack>>
          ELSE /\ rules' = add_rule(t, Rule(sel, processed_impl, Produces(processed_impl, kwargs)))
               /\ raised' = "none"
               /\ UNCHANGED stack
       /\ returned' = Nothing
       /\ UNCHANGED generic
       /\ UNCHANGED <<trace, session, contexts, decorated>>

\* @def_rule(selector) applied to a function that returns ret, run at module level
DefRule(xs, ret) ==
    LET sel == new_selector(xs)
        t == choice_function(sel)
    IN /\ stack = <<>>
       /\ Len(rules[t]) < MaxRules
       /\ rules' = add_rule(t, Rule(sel, None, ret))
       /\ raised' = "none"
       /\ returned' = Nothing
       /\ UNCHANGED generic
       /\ UNCHANGED <<stack, trace, session, contexts, decorated>>

\* what the function given to def_rule returns: None, or (impl, kwargs)
DefRuleReturns ==
    {Declines} \cup {Produces(i, [k \in {"p"} |-> 2]) : i \in {None, "F", "X", Bad}}

\* the impl argument rule() is called with
RuleImpls == {None, "F", "X", Bad}

----------------------------------------------------------------------------
(* The decorators func and impl *)

\* plain functions that are decorated: h(p=0) and k(p=0, q=0)
Decorated == {"h", "k"}

\* inspect.signature(func): the POSITIONAL_OR_KEYWORD parameters, lines 360-364
signature(fn) == IF fn = "h" THEN {"p"} ELSE {"p", "q"}

\* the lists given as args= to func and to impl
ChoiceArgs == {<<>>, <<"p">>, <<"q">>, <<"r">>, <<"p", "q">>, <<"p", "r">>}

\* validate changed: only the first listed name is looked up
validate_first_only(choice_args, defaults, i) ==
    IF Len(choice_args) >= i /\ i = 1 /\ choice_args[i] \notin defaults
    THEN choice_args[i] ELSE None

\* the loop of lines 367-369 from position i: the first listed name that is
\* not in defaults, for which MissingChoiceArg is raised, or None
RECURSIVE validate(_, _, _)
validate(choice_args, defaults, i) ==
    IF i > Len(choice_args) THEN None
    ELSE IF choice_args[i] \notin defaults THEN choice_args[i]
    ELSE validate(choice_args, defaults, i + 1)

\* ChoiceFuncImplementation.__init__: the implementation object, named by its
\* function, or the exception
ChoiceFuncImplementation(choice_args, fn) ==
    LET missing == validate(choice_args, signature(fn), 1)
    IN IF missing # None THEN [raises |-> "MissingChoiceArg", id |-> None]
       ELSE [raises |-> "none", id |-> fn]

\* @func(args=choice_args) applied to fn, at module level
Func(choice_args, fn) ==
    LET func_args == ChoiceFuncImplementation(choice_args, fn)
    IN /\ stack = <<>>
       /\ Len(registry) < MaxRegistry
       /\ raised' = func_args.raises
       /\ registry' = IF func_args.raises = "none" THEN Append(registry, fn) ELSE registry
       /\ returned' = Nothing
       /\ UNCHANGED generic
       /\ UNCHANGED <<rules, stack, trace, session, contexts, funcs>>

\* @impl(implements=t, args=choice_args) applied to fn, at module level
Impl(t, choice_args, fn) ==
    LET func_args == ChoiceFuncImplementation(choice_args, fn)
    IN /\ stack = <<>>
       /\ raised' = func_args.raises
       /\ funcs' = IF func_args.raises = "none"
                   THEN [funcs EXCEPT ![t] = @ \cup {func_args.id}] ELSE funcs
       /\ returned' = Nothing
       /\ UNCHANGED generic
       /\ UNCHANGED <<rules, stack, trace, session, contexts, registry>>

----------------------------------------------------------------------------
(* Specifications *)

Init ==
    /\ rules = [t \in Targets |-> <<>>]
    /\ stack = <<>>
    /\ raised = "none"
    /\ trace = Nothing
    /\ returned = Nothing
    /\ session = [events |-> <<>>, during |-> FALSE]
    /\ active = FALSE
    /\ scopes = <<>>
    /\ registry = <<"F", "G">>
    /\ funcs = [t \in Targets |-> IF t = "F" THEN Alternates ELSE {}]
    /\ generic = Nothing

Register ==
    \/ \E xs \in RuleSelectors, impl \in RuleImpls, kw \in RuleKwargs :
          RegisterRule(xs, impl, kw)
    \/ \E xs \in RuleSelectors, ret \in DefRuleReturns : DefRule(xs, ret)

\* rules are registered on F at module level; A and F are called
Next ==
    \/ Register
    \/ Enter("A")
    \/ \E kw \in CallerKwargs : Call("F", <<>>, kw)
    \/ Return

Spec == Init /\ [][Next]_vars

\* the selectors generic_compare is given: of a plain function, a target
\* entry and a Match on it
GenericItems ==
    {FunctionSelectorItem("A"), CallableSelectorItem("F"), new_selector_item("Match(F, p=0)")}
GenericSelectors == UNION {[1..n -> GenericItems] : n \in 0..MaxSelLen}

\* two selectors are given, and generic_compare is applied to them
InitGeneric ==
    /\ rules = [t \in Targets |-> <<>>]
    /\ stack = <<>>
    /\ raised = "none"
    /\ trace = Nothing
    /\ returned = Nothing
    /\ session = [events |-> <<>>, during |-> FALSE]
    /\ active = FALSE
    /\ scopes = <<>>
    /\ registry = <<"F", "G">>
    /\ funcs = [t \in Targets |-> IF t = "F" THEN Alternates ELSE {}]
    /\ generic \in {[a |-> a, b |-> b] : a, b \in GenericSelectors}

NextGeneric == GenericCompare

SpecGeneric == InitGeneric /\ [][NextGeneric]_vars

\* no rule is registered; every caller and every target entry is called
NextStacks ==
    \/ \E f \in Callers : Enter(f)
    \/ \E t \in Targets, kw \in CallerKwargs : Call(t, <<>>, kw)
    \/ Return

SpecStacks == Init /\ [][NextStacks]_vars

\* no rule is registered; trace sessions are started and stopped at any time,
\* the target entries are called and their implementations return or raise
NextTrace ==
    \/ TraceStart
    \/ TraceStop
    \/ \E t \in Targets : Call(t, <<>>, EmptyDict)
    \/ Return
    \/ Raise

SpecTrace == Init /\ [][NextTrace]_vars

\* functions are decorated with func and with impl
NextDecorate ==
    \/ \E fn \in Decorated, choice_args \in ChoiceArgs : Func(choice_args, fn)
    \/ \E t \in Targets, fn \in Decorated, choice_args \in ChoiceArgs :
          Impl(t, choice_args, fn)

SpecDecorate == Init /\ [][NextDecorate]_vars

\* the selectors of the rules registered with context items
ContextSelectors == {<<x, "F">> : x \in Contexts}

\* rules that select X are registered on F for context selectors; scopes of
\* both context types are entered and left, and A and F are called
NextContexts ==
    \/ \E xs \in ContextSelectors : RegisterRule(xs, "X", EmptyDict)
    \/ \E context \in Contexts : EnterContext(context)
    \/ \E exception \in BOOLEAN : ExitContext(exception)
    \/ Enter("A")
    \/ Call("F", <<>>, EmptyDict)
    \/ Return

SpecContexts == Init /\ [][NextContexts]_vars

\* as before, with one context type only
NextScopes ==
    \/ RegisterRule(<<"CtxX", "F">>, "X", EmptyDict)
    \/ EnterContext("CtxX")
    \/ \E exception \in BOOLEAN : ExitContext(exception)
    \/ Enter("A")
    \/ Call("F", <<>>, EmptyDict)
    \/ Return

SpecScopes == Init /\ [][NextScopes]_vars

\* the selectors of the rules registered with class-method items
ClassSelectors == {<<x, "F">> : x \in ClassTuples}

\* rules that select X are registered on F for class-method selectors; methods
\* are called on instances of Base and of Child, and F is called
NextClasses ==
    \/ \E xs \in ClassSelectors : RegisterRule(xs, "X", EmptyDict)
    \/ \E code \in MethodCodes, cls \in Classes : EnterMethod(code, cls)
    \/ Call("F", <<>>, EmptyDict)
    \/ Return

SpecClasses == Init /\ [][NextClasses]_vars

\* the selectors of the rules registered with Match items, and the arguments
\* callers pass positionally and by keyword
MatchSelectors == {<<x>> : x \in MatchObjects}
CallerArgs == {<<>>, <<5>>, <<5, 6>>}
MatchCallerKwargs == {EmptyDict, [k \in {"p"} |-> 5]}

\* rules that select X are registered on F for selectors of one Match item;
\* the target entries are called with positional and keyword arguments
NextMatch ==
    \/ \E xs \in MatchSelectors : RegisterRule(xs, "X", EmptyDict)
    \/ \E t \in Targets, args \in CallerArgs, kw \in MatchCallerKwargs : Call(t, args, kw)
    \/ Return

SpecMatch == Init /\ [][NextMatch]_vars

\* the selectors [G, F] and [F, F]
EntrySelectors == {<<t, "F">> : t \in Targets}

\* rules that select X are registered on F for selectors of two target
\* entries; the callers and both target entries are called, one inside the
\* other
NextEntries ==
    \/ \E xs \in EntrySelectors : RegisterRule(xs, "X", EmptyDict)
    \/ \E f \in Callers : Enter(f)
    \/ \E t \in Targets : Call(t, <<>>, EmptyDict)
    \/ Return

SpecEntries == Init /\ [][NextEntries]_vars

\* the calls of F with p given once: positionally, by keyword, or not at all
PositionalCalls ==
    {[args |-> <<5>>, kwargs |-> EmptyDict]}
        \cup {[args |-> <<>>, kwargs |-> kw] : kw \in CallerKwargs}

\* rules that name no implementation or select X are registered on F, with
\* and without a value for p; A is called, and F with p given at most once
NextPositional ==
    \/ \E xs \in RuleSelectors, impl \in {None, "X"}, kw \in RuleKwargs :
          RegisterRule(xs, impl, kw)
    \/ Enter("A")
    \/ \E c \in PositionalCalls : Call("F", c.args, c.kwargs)
    \/ Return

SpecPositional == Init /\ [][NextPositional]_vars

\* the implementations def_rule functions return here: an alternate, or an
\* object that is no implementation
NonRuleReturns == {Produces(i, [k \in {"p"} |-> 2]) : i \in {"X", Bad}}

\* def_rule rules are registered on F; a session is started, and A and F are
\* called
NextNonRule ==
    \/ \E xs \in RuleSelectors, ret \in NonRuleReturns : DefRule(xs, ret)
    \/ TraceStart
    \/ Enter("A")
    \/ Call("F", <<>>, EmptyDict)
    \/ Return

SpecNonRule == Init /\ [][NextNonRule]_vars

----------------------------------------------------------------------------
(* Selectors the claims about matches and compare range over *)

SelectorItems ==
    {FunctionSelectorItem(f) : f \in Callers} \cup {CallableSelectorItem(t) : t \in Targets}

Selectors == UNION {[1..n -> SelectorItems] : n \in 0..MaxSelLen}

\* the selectors that match the current stack
Matching == {s \in Selectors : matches(s, stack).matched}

\* the items can be assigned to frames that they match, an earlier item
\* to a frame further outward than every later item's: some frame f matches
\* the last item, and the items before it can be assigned outward of f
RECURSIVE Assignable(_, _)
Assignable(items, stack_info) ==
    \/ Len(items) = 0
    \/ \E f \in 1..Len(stack_info) :
          /\ ItemMatches(items[Len(items)], stack_info[f])
          /\ Assignable(SubSeq(items, 1, Len(items) - 1),
                        SubSeq(stack_info, f + 1, Len(stack_info)))

\* C1: a selector matches a stack iff its items can be assigned, last item
\* first, to distinct frames they match, each earlier item strictly further
\* outward; frames in between are skipped
C1_MatchesIffAssignable ==
    \A s \in Selectors : matches(s, stack).matched <=> Assignable(s, stack)

\* B innermost, called from the body of G, called from A: [A, B] matches over
\* the two frames of G, and [B, A] does not match
C1_Witness ==
    /\ Len(stack) = 4
    /\ stack[1].code = "B" /\ stack[2].code = "G.interface"
    /\ stack[3].code = CallCode /\ stack[4].code = "A"
    /\ matches(new_selector(<<"A", "B">>), stack).matched
    /\ ~matches(new_selector(<<"B", "A">>), stack).matched

\* C2: the selector with no items matches every stack, with no captures
C2_EmptySelectorMatches ==
    LET m == matches(<<>>, stack)
    IN m.matched /\ m.captures = <<>>

C2_Witness ==
    /\ Len(stack) = MaxDepth
    /\ matches(<<>>, stack).matched
    /\ \A s \in Selectors : Len(s) = 1 => ~matches(s, SubSeq(stack, 1, 1)).matched

\* C3: of two selectors that match the stack, one being the other with items
\* prepended on the outer side, compare ranks the longer as more specific
C3_LongerSuffixExtensionWins ==
    \A long \in Matching : \A n \in 0..(Len(long) - 1) :
        LET short == SubSeq(long, Len(long) - n + 1, Len(long))
        IN short \in Matching =>
              /\ compare(long, short, stack) = 1
              /\ compare(short, long, stack) = -1

\* F is invoked inside A: [A, F] and [F] both match
C3_Witness ==
    /\ Len(stack) >= 3
    /\ stack[2].code = CallCode /\ stack[2].self = "F" /\ stack[3].code = "A"
    /\ new_selector(<<"A", "F">>) \in Matching
    /\ new_selector(<<"F">>) \in Matching
    /\ compare(new_selector(<<"A", "F">>), new_selector(<<"F">>), stack) = 1

\* C4: for selectors a, b that match the stack, compare(a, b) = -compare(b, a),
\* and compare(a, a) = 0
C4_CompareAntisymmetric ==
    \A a, b \in Matching :
        /\ compare(a, b, stack) \in {-1, 0, 1}
        /\ compare(a, b, stack) = -compare(b, a, stack)
        /\ compare(a, a, stack) = 0

\* two selectors that match, one strictly more specific than the other
C4_Witness ==
    \E a, b \in Matching :
        /\ Len(a) > 0 /\ Len(b) > 0
        /\ compare(a, b, stack) = 1 /\ compare(b, a, stack) = -1
        /\ compare(a, a, stack) = 0

\* C5: compare is transitive on the selectors that match the stack: from
\* a <= b and b <= c follows a <= c, strictly if either step is strict
C5_CompareTransitive ==
    LET cmp == [a \in Matching, b \in Matching |-> compare(a, b, stack)]
    IN \A a, b, c \in Matching :
          (cmp[a, b] <= 0 /\ cmp[b, c] <= 0)
             => /\ cmp[a, c] <= 0
                /\ (cmp[a, b] < 0 \/ cmp[b, c] < 0) => cmp[a, c] < 0

\* three selectors that match, each strictly less specific than the next
C5_Witness ==
    \E a, b, c \in Matching :
        /\ compare(a, b, stack) = -1
        /\ compare(b, c, stack) = -1
        /\ compare(a, c, stack) = -1

----------------------------------------------------------------------------
(* Comparison without a stack *)

\* the items of x are the last items of the longer y
StrictTail(x, y) ==
    /\ Len(x) < Len(y)
    /\ \A n \in 1..Len(x) : item_eq(x[n], y[Len(y) - Len(x) + n])

----------------------------------------------------------------------------
(* The frames a match binds *)

\* the selectors of plain functions, target entries and a Match on F
CapturingItems == SelectorItems \cup {new_selector_item("Match(F, p=0)")}
CapturingSelectors == UNION {[1..n -> CapturingItems] : n \in 0..MaxSelLen}
CapturingMatching == {s \in CapturingSelectors : matches(s, stack).matched}

\* the frames the match of a matching selector binds, innermost first: the
\* item at si and then the items before it, each bound to the first frame
\* from from outward that it matches
RECURSIVE Bound(_, _, _, _)
Bound(s, si, stack_info, from) ==
    IF si < 1 THEN <<>>
    ELSE LET f == CHOOSE f \in from..Len(stack_info) :
                     /\ ItemMatches(s[si], stack_info[f])
                     /\ \A g \in from..(f - 1) : ~ItemMatches(s[si], stack_info[g])
         IN <<f>> \o Bound(s, si - 1, stack_info, f + 1)

BoundFrames(s) == Bound(s, Len(s), stack, 1)

\* the comparison of two sequences of bound frames: at the first position
\* where they differ the more inner frame is the more specific, and of a
\* sequence and its proper prefix the prefix is the less specific
FrameOrder(x, y) ==
    LET differ == {k \in 1..Len(x) : k <= Len(y) /\ x[k] # y[k]}
    IN IF differ # {}
       THEN LET k == CHOOSE k \in differ : \A m \in differ : k <= m
            IN IF x[k] < y[k] THEN 1 ELSE -1
       ELSE IF Len(x) < Len(y) THEN -1
       ELSE IF Len(x) > Len(y) THEN 1
       ELSE 0

\* C23: for two selectors that match the stack, compare is the comparison of
\* the frames their matches bind, whatever the selectors' lengths, and it is
\* 0 iff they bind the same frames
C23_CompareIsBoundFrameOrder ==
    \A a, b \in CapturingMatching :
        /\ compare(a, b, stack) = FrameOrder(BoundFrames(a), BoundFrames(b))
        /\ compare(a, b, stack) = 0 <=> BoundFrames(a) = BoundFrames(b)

\* B runs in the body of F, called from A: [B] binds the innermost frame and
\* is more specific than the longer [A, F]; [Match(F, p=0)] and [F] bind the
\* same frame and are equally specific
C23_Witness ==
    LET b == new_selector(<<"B">>)
        af == new_selector(<<"A", "F">>)
        mf == new_selector(<<"Match(F, p=0)">>)
        f == new_selector(<<"F">>)
    IN /\ {b, af, mf, f} \subseteq CapturingMatching
       /\ BoundFrames(b) = <<1>>
       /\ BoundFrames(af) = <<3, 4>>
       /\ compare(b, af, stack) = 1
       /\ BoundFrames(mf) = BoundFrames(f)
       /\ compare(mf, f, stack) = 0

----------------------------------------------------------------------------------------------------------------------------------------
(* Invocations in progress: the __call__ frames on the stack, each at line 501 *)

CallFrames == {i \in 1..Len(stack) : stack[i].code = CallCode}

\* the stack the invocation of frame i saw at line 480
StackInfoAt(i) ==
    <<EntryFrame(stack[i].self, stack[i].args, stack[i].kwargs)>>
        \o SubSeq(stack, i + 1, Len(stack))

\* what the rule's producer returned: its implementation and its overrides
Resolved(r) == IF r.vals.applies THEN r.vals.impl ELSE None
Overrides(r) == IF r.vals.applies THEN r.vals.kwargs ELSE EmptyDict

\* a target entry named as an implementation stands for its default implementation
ImplementationOf(x) == IF x \in Targets THEN Interface(x) ELSE x

\* The invocation of frame i, as the claims read it:
\*   rs          the rules registered on its target
\*   matched     the positions of the rules whose selectors match its stack
\*   cmp         compare on the selectors of the matched rules
\*   candidates  the matched rules that resolve to an implementation
\*   survivors   the positions of the rules left by the pruning
\*   kwargs, choice_kwargs, impl   the locals of the frame
\*   body        the frame of the implementation's body
Invocation(i) ==
    LET rs == rules[stack[i].self]
        stack_info == StackInfoAt(i)
        matched == {j \in 1..Len(rs) : Assignable(rs[j].selector, stack_info)}
    IN [rs |-> rs,
        matched |-> matched,
        cmp |-> [j \in matched, k \in matched |->
                    compare(rs[j].selector, rs[k].selector, stack_info)],
        candidates |-> {j \in matched : Resolved(rs[j]) # None},
        survivors |-> {stack[i].rules[n] : n \in 1..Len(stack[i].rules)},
        kwargs |-> stack[i].kwargs,
        choice_kwargs |-> stack[i].choice_kwargs,
        impl |-> stack[i].impl,
        body |-> stack[i - 1]]

Invocations == {Invocation(i) : i \in CallFrames}

\* rule j is more specific than rule k, or is as specific and registered no earlier
Prevails(v, j, k) == v.cmp[j, k] > 0 \/ (v.cmp[j, k] = 0 /\ j >= k)

\* C6: the implementation invoked is the resolved implementation of the most
\* specific matched rule that resolves to one; with no such rule it is the
\* target's default implementation
C6_WinnerIsMostSpecific ==
    \A i \in CallFrames :
        LET v == Invocation(i)
        IN /\ v.body.code = v.impl
           /\ IF v.candidates = {}
              THEN v.impl = Interface(stack[i].self)
              ELSE \E j \in v.candidates :
                      /\ \A k \in v.candidates : Prevails(v, j, k)
                      /\ v.impl = ImplementationOf(Resolved(v.rs[j]))

\* two matched rules resolve to different implementations; the one registered
\* first is the more specific, and its implementation runs
C6_Witness ==
    \E v \in Invocations : \E j, k \in v.candidates :
        /\ j < k
        /\ Prevails(v, j, k)
        /\ ImplementationOf(Resolved(v.rs[j])) # ImplementationOf(Resolved(v.rs[k]))
        /\ v.impl = ImplementationOf(Resolved(v.rs[j]))
        /\ v.body.code = v.impl

\* C7: for a parameter p the caller does not pass by keyword, the final
\* keyword arguments hold the value of the most specific surviving rule that
\* sets p, and do not hold p if no surviving rule sets it
C7_LastAppliedWins ==
    \A v \in Invocations : \A p \in (DOMAIN Defaults) \ (DOMAIN v.kwargs) :
        LET setters == {j \in v.survivors : p \in DOMAIN Overrides(v.rs[j])}
        IN IF setters = {}
           THEN p \notin DOMAIN v.choice_kwargs
           ELSE \E j \in setters :
                   /\ \A k \in setters : Prevails(v, j, k)
                   /\ p \in DOMAIN v.choice_kwargs
                   /\ v.choice_kwargs[p] = Overrides(v.rs[j])[p]

\* two surviving rules set p to different values; the one registered first is
\* the more specific, and the call gets its value
C7_Witness ==
    \E v \in Invocations : \E j, k \in v.survivors :
        /\ "p" \notin DOMAIN v.kwargs
        /\ j < k
        /\ Prevails(v, j, k)
        /\ "p" \in DOMAIN Overrides(v.rs[j])
        /\ "p" \in DOMAIN Overrides(v.rs[k])
        /\ Overrides(v.rs[j])["p"] # Overrides(v.rs[k])["p"]
        /\ v.choice_kwargs["p"] = Overrides(v.rs[j])["p"]

\* C8: every keyword argument the caller passes is in the final keyword
\* arguments, and reaches the implementation, with the caller's value
C8_CallerKwargsDominate ==
    \A v \in Invocations : \A p \in DOMAIN v.kwargs :
        /\ p \in DOMAIN v.choice_kwargs
        /\ v.choice_kwargs[p] = v.kwargs[p]
        /\ v.body.locals[p] = v.kwargs[p]

\* the caller passes p, and the most specific matched rule survives and sets
\* p to another value
C8_Witness ==
    \E v \in Invocations : \E j \in v.survivors :
        /\ "p" \in DOMAIN v.kwargs
        /\ \A k \in v.matched : Prevails(v, j, k)
        /\ "p" \in DOMAIN Overrides(v.rs[j])
        /\ Overrides(v.rs[j])["p"] # v.kwargs["p"]
        /\ v.body.locals["p"] = v.kwargs["p"]

\* the matched rule j selects an alternate implementation and wins
WinsWithAlternate(v, j) ==
    /\ j \in v.candidates
    /\ \A k \in v.candidates : Prevails(v, j, k)
    /\ Resolved(v.rs[j]) \in Alternates
    /\ v.impl = Resolved(v.rs[j])

\* the value rule k gives p is in the final keyword arguments, unless the
\* caller, or a surviving rule that prevails over k, sets p
Applied(v, k, p) ==
    /\ p \in DOMAIN v.choice_kwargs
    /\ \/ v.choice_kwargs[p] = Overrides(v.rs[k])[p]
       \/ p \in DOMAIN v.kwargs
       \/ \E m \in v.survivors :
             m # k /\ Prevails(v, m, k) /\ p \in DOMAIN Overrides(v.rs[m])

\* C9: when a matched rule that selects an alternate implementation wins, a
\* less specific matched rule that names no implementation survives the
\* pruning and its overrides are applied to the call
C9_ParameterOnlyRulesSurvive ==
    \A v \in Invocations : \A j, k \in v.matched :
        (/\ WinsWithAlternate(v, j)
         /\ v.rs[k].vals.applies
         /\ Resolved(v.rs[k]) = None
         /\ ~Prevails(v, k, j))
        => /\ k \in v.survivors
           /\ \A p \in DOMAIN Overrides(v.rs[k]) : Applied(v, k, p)

\* X was chosen by the more specific rule, which sets nothing; the less
\* specific rule names no implementation, and its value of p reaches X
C9_Witness ==
    \E v \in Invocations : \E j, k \in v.matched :
        /\ WinsWithAlternate(v, j)
        /\ Overrides(v.rs[j]) = EmptyDict
        /\ Resolved(v.rs[k]) = None
        /\ ~Prevails(v, k, j)
        /\ "p" \in DOMAIN Overrides(v.rs[k])
        /\ "p" \notin DOMAIN v.kwargs
        /\ v.body.code \in Alternates
        /\ v.body.locals["p"] = Overrides(v.rs[k])["p"]

\* C10: a matched rule that resolves to an implementation other than the one
\* invoked is not among the surviving rules, so that none of its overrides
\* reaches the call
C10_LosingImplementationPruned ==
    \A v \in Invocations : \A j \in v.matched :
        (/\ Resolved(v.rs[j]) # None
         /\ ImplementationOf(Resolved(v.rs[j])) # v.impl)
        => j \notin v.survivors

\* the matched rules of the invocation of frame i that were registered with
\* the target itself in the place of the implementation
NamesTarget(i) ==
    LET v == Invocation(i)
    IN {k \in v.matched : v.rs[k].impl = Interface(stack[i].self)}

\* C20: a matched rule registered as rule(selector, F, **kwargs), F being the
\* target, is a parameter-only rule: it survives the pruning and its
\* overrides are applied, and the implementation invoked is the one the other
\* matched rules select, the most specific of them that resolves to one
\* winning, or the default implementation if none does
C20_TargetNamedRuleIsParameterOnly ==
    \A i \in CallFrames :
        LET v == Invocation(i)
            others == v.candidates \ NamesTarget(i)
        IN NamesTarget(i) # {} =>
              /\ \A k \in NamesTarget(i) :
                    /\ k \in v.survivors
                    /\ \A p \in DOMAIN Overrides(v.rs[k]) : Applied(v, k, p)
              /\ IF others = {}
                 THEN v.impl = Interface(stack[i].self)
                 ELSE \E j \in others :
                         /\ \A k \in others : Prevails(v, j, k)
                         /\ v.impl = ImplementationOf(Resolved(v.rs[j]))

\* C25: every matched rule that resolves to the implementation invoked,
\* named through the target entry or through the implementation object,
\* survives the pruning and has its overrides applied
C25_WinningImplementationRulesSurvive ==
    \A v \in Invocations : \A j \in v.matched :
        (/\ Resolved(v.rs[j]) # None
         /\ ImplementationOf(Resolved(v.rs[j])) = v.impl)
        => /\ j \in v.survivors
           /\ \A p \in DOMAIN Overrides(v.rs[j]) : Applied(v, j, p)

\* C26: an argument the caller gives positionally is not overridden by a
\* rule and no rule makes the call fail: no call whose own arguments bind
\* raises TypeError, and the body of an invocation given p positionally runs
\* with the caller's value
C26_PositionalArgumentPrevails ==
    /\ raised # "TypeError"
    /\ \A i \in CallFrames :
          Len(stack[i].args) > 0 => stack[i - 1].locals["p"] = stack[i].args[1]

\* C28: the matched list of an invocation holds exactly the rules of the
\* target whose selectors match the stack, each once; no rule in it is more
\* specific than a later one, and rules of equal specificity are in
\* registration order
C28_MatchedListSorted ==
    \A i \in CallFrames :
        LET v == Invocation(i)
            ms == stack[i].matched
        IN /\ {ms[n] : n \in 1..Len(ms)} = v.matched
           /\ Len(ms) = Cardinality(v.matched)
           /\ \A m, n \in 1..Len(ms) :
                 m < n => \/ v.cmp[ms[m], ms[n]] < 0
                          \/ v.cmp[ms[m], ms[n]] = 0 /\ ms[m] < ms[n]

\* of the two matched rules of an invocation the later registered is the
\* less specific and comes first
C28_Witness ==
    \E i \in CallFrames :
        /\ stack[i].matched = <<2, 1>>
        /\ Invocation(i).matched = {1, 2}
        /\ Invocation(i).cmp[2, 1] < 0

----------------------------------------------------------------------------
(* Declining rules *)

\* the rule list without the rule at position j
Without(rs, j) == SubSeq(rs, 1, j - 1) \o SubSeq(rs, j + 1, Len(rs))

\* what the call of t with kwargs on stack_info resolves to when rs are the
\* rules registered on t: the implementation called and the final keyword
\* arguments
Resolution(t, rs, stack_info, kwargs) ==
    LET ms == sorted(matched_rules(rs, stack_info, 1), stack_info)
        impl == best_impl(t, ms, Len(ms))
    IN [impl |-> callee(impl), choice_kwargs |-> choice_kwargs(prune(ms, impl), kwargs)]

\* the matched rules of the invocation whose producer returned nothing
Declined(v) == {j \in v.matched : ~v.rs[j].vals.applies}

\* C21: a matched rule whose producer declines changes neither the
\* implementation invoked nor the final keyword arguments: both are what the
\* invocation resolves to with that rule not registered
C21_DecliningRuleChangesNothing ==
    \A i \in CallFrames :
        LET v == Invocation(i)
        IN \A j \in Declined(v) :
              Resolution(stack[i].self, Without(v.rs, j), StackInfoAt(i), v.kwargs)
                  = [impl |-> v.impl, choice_kwargs |-> v.choice_kwargs]

\* the most specific matched rule declines; a less specific one selects X and
\* sets p, and X runs with that value
C21_Witness ==
    \E v \in Invocations : \E j \in Declined(v) : \E k \in v.candidates :
        /\ Prevails(v, j, k)
        /\ v.cmp[j, k] > 0
        /\ Resolved(v.rs[k]) \in Alternates
        /\ v.impl = Resolved(v.rs[k])
        /\ "p" \in DOMAIN v.choice_kwargs
        /\ "p" \notin DOMAIN v.kwargs
        /\ v.body.locals["p"] = Overrides(v.rs[k])["p"]

----------------------------------------------------------------------------
(* The trace recorder *)

\* the nesting of a trace node: its target entry and the nesting of its children
RECURSIVE Nesting(_)
Nesting(node) ==
    [func |-> node.func, items |-> [n \in 1..Len(node.items) |-> Nesting(node.items[n])]]

\* entries minus exits among the first n events
Depth(events, n) ==
    Cardinality({i \in 1..n : events[i].op = "begin"})
        - Cardinality({i \in 1..n : events[i].op # "begin"})

\* the call nesting of a sequence of entries and normal exits in which every
\* entry has its exit: the first invocation with what ran inside it, then the
\* invocations after its exit
RECURSIVE CallNesting(_)
CallNesting(events) ==
    IF Len(events) = 0 THEN <<>>
    ELSE LET m == CHOOSE m \in 2..Len(events) :
                      /\ Depth(events, m) = 0
                      /\ \A k \in 1..(m - 1) : Depth(events, k) > 0
         IN <<[func |-> events[1].func, items |-> CallNesting(SubSeq(events, 2, m - 1))]>>
                \o CallNesting(SubSeq(events, m + 1, Len(events)))

\* the session that trace_stop just ended began and ended outside every
\* invocation, and every invocation in it returned normally
NormalSession ==
    /\ returned # Nothing
    /\ ~session.during
    /\ \A i \in 1..Len(session.events) : session.events[i].op # "raise"

\* C11: the Trace that trace_stop returns for a session of normally returning
\* invocations, begun and ended outside every invocation, is the call nesting:
\* one node per invocation, the top-level invocations at the top, and under
\* each node the invocations made directly inside it, in completion order
C11_TraceMirrorsNesting ==
    NormalSession =>
        [n \in 1..Len(returned.items) |-> Nesting(returned.items[n])]
            = CallNesting(session.events)

\* F called G once and returned, then G was called with no nested call
C11_Witness ==
    /\ NormalSession
    /\ Len(returned.items) = 2
    /\ returned.items[1].func = "F"
    /\ Len(returned.items[1].items) = 1
    /\ returned.items[1].items[1].func = "G"
    /\ returned.items[1].items[1].items = <<>>
    /\ returned.items[2].items = <<>>

\* the invocations that began in the session and have not left, by return or
\* by exception, after the first n events
RECURSIVE InFlight(_, _)
InFlight(events, n) ==
    IF n = 0 THEN 0
    ELSE LET d == InFlight(events, n - 1)
         IN IF events[n].op = "begin" THEN d + 1
            ELSE IF d > 0 THEN d - 1 ELSE 0

\* C12: while a session records, the node of an invocation is closed on every
\* exit path, by return or by exception: the in-flight stack holds the nodes
\* of the invocations that are still running and no others, so that it has
\* after each invocation the depth it had before
C12_NodeClosedOnEveryExit ==
    trace # Nothing => Len(trace.stack) = InFlight(session.events, Len(session.events))

\* the targets of the invocations that began in the session with no other
\* invocation of the session in flight and that returned, in completion order
RECURSIVE TopLevelCompleted(_, _)
TopLevelCompleted(events, n) ==
    IF n = 0 THEN <<>>
    ELSE IF events[n].op = "end" /\ InFlight(events, n - 1) = 1
         THEN Append(TopLevelCompleted(events, n - 1), events[n].func)
         ELSE TopLevelCompleted(events, n - 1)

\* C19: trace_stop leaves the recorder idle and returns, without error, the
\* nodes of exactly the top-level invocations completed since the most recent
\* trace_start, in completion order: nothing of an earlier session that was
\* restarted, nothing still in flight, and nothing at all when it was idle
C19_StopReturnsSessionTopLevel ==
    returned # Nothing =>
        /\ trace = Nothing
        /\ raised = "none"
        /\ [n \in 1..Len(returned.items) |-> returned.items[n].func]
              = TopLevelCompleted(session.events, Len(session.events))

\* the body of the innermost implementation returns, so that its invocation
\* reaches call_end, and the session's in-flight stack is empty
EndsOnEmptyStack ==
    /\ stack # <<>>
    /\ stack[1].code \in Implementations
    /\ stack' = SubSeq(stack, 3, Len(stack))
    /\ raised' # "Error"
    /\ trace # Nothing
    /\ trace.stack = <<>>

\* C22: Tracing.end on an empty in-flight stack raises MismatchedTrace and
\* leaves the session's in-flight stack and top-level list as they were
C22_EndOnEmptyStackRaises ==
    [][EndsOnEmptyStack => (raised' = "MismatchedTrace" /\ trace' = trace)]_vars

\* a session was started inside an invocation of which the return found the
\* stack empty, after an invocation made inside it had completed
C22_Witness ==
    /\ raised = "MismatchedTrace"
    /\ trace # Nothing
    /\ trace.stack = <<>>
    /\ Len(trace.items) = 1

\* C24: no invocation raises MismatchedTrace, wherever trace_start and
\* trace_stop are called, inside a running implementation included
C24_NoMismatchedTrace == raised # "MismatchedTrace"

----------------------------------------------------------------------------
(* Decoration *)

\* a listed override-argument name is not a parameter of the function
NotAParameter(choice_args, fn) ==
    \E i \in 1..Len(choice_args) : choice_args[i] \notin signature(fn)

\* C13: func(args=...) and impl(..., args=...) raise MissingChoiceArg when a
\* listed name is not a parameter of the decorated function, and leave the
\* registry and the alternate-implementation maps as they were
C13_MissingChoiceArgRegistersNothing ==
    [][\A fn \in Decorated, choice_args \in ChoiceArgs :
          (/\ NotAParameter(choice_args, fn)
           /\ \/ Func(choice_args, fn)
              \/ \E t \in Targets : Impl(t, choice_args, fn))
          => /\ raised' = "MissingChoiceArg"
             /\ registry' = registry
             /\ funcs' = funcs]_vars

\* a decoration failed after one function was registered and one alternate added
C13_Witness ==
    /\ raised = "MissingChoiceArg"
    /\ Len(registry) = 3
    /\ registry[3] \in Decorated
    /\ \E t \in Targets : funcs[t] \cap Decorated # {}

----------------------------------------------------------------------------
(* Invalid implementations *)

\* the object is neither a ChoiceFuncImplementation nor a ChoiceFunction
Invalid(x) == x # None /\ x \notin Implementations /\ x \notin Targets

\* the rules of t whose selectors match the stack of an invocation of t
MatchedAt(t, stack_info) ==
    {j \in 1..Len(rules[t]) : Assignable(rules[t][j].selector, stack_info)}

\* of the matched rules of t that resolve to an implementation, the one that
\* prevails over the others resolves to x
WinnerResolvesTo(t, stack_info, x) ==
    LET rs == rules[t]
        candidates == {j \in MatchedAt(t, stack_info) : Resolved(rs[j]) # None}
    IN \E j \in candidates :
          /\ Resolved(rs[j]) = x
          /\ \A k \in candidates :
                LET c == compare(rs[j].selector, rs[k].selector, stack_info)
                IN c > 0 \/ (c = 0 /\ j >= k)

\* the invocation raises NonRule: no body starts, and the recorder's in-flight
\* stack and result list are as before
RaisesNonRule ==
    /\ raised' = "NonRule"
    /\ stack' = stack
    /\ trace' = trace

----------------------------------------------------------------------------
(* Match items *)

\* the frames on the stack, and the frame of every call as resolution sees it
Frames ==
    {stack[i] : i \in 1..Len(stack)}
        \cup {EntryFrame(t, args, kw) : t \in Targets, args \in CallerArgs, kw \in MatchCallerKwargs}

\* the call of the frame gives no parameter twice, and nothing that the
\* declared signature has no parameter for
WellFormedCall(frame) ==
    /\ Len(frame.args) <= Len(Params)
    /\ \A key \in DOMAIN frame.kwargs :
          \E i \in 1..Len(Params) : i > Len(frame.args) /\ Params[i] = key

\* the effective call argument for key is value: passed positionally or by
\* keyword, otherwise the declared default
EffectiveArgument(frame, key, value) ==
    \E i \in 1..Len(Params) :
        /\ Params[i] = key
        /\ value = IF i <= Len(frame.args) THEN frame.args[i]
                   ELSE IF key \in DOMAIN frame.kwargs THEN frame.kwargs[key]
                   ELSE Defaults[key]

C27_MatchSurvivesBindFailure ==
    \A x \in MatchObjects : \A frame \in Frames :
        LET item == MatchObject(x)
        IN (/\ frame.code = CallCode
            /\ ~WellFormedCall(frame)
            /\ item.match_kwargs # EmptyDict
            /\ ItemMatches(item.item, frame))
           => ItemMatches(item, frame)

----------------------------------------------------------------------------
(* Items of target entries *)

\* frame k is the body of an implementation of target entry t
BodyOf(t, k) == stack[k].code \in {Interface(t)} \cup funcs[t]

\* C30: the item of a target entry matches the invocation frame of that
\* entry only: a rule with the selector [u, t] is among the matched rules of
\* an invocation of t iff the invocation is made while an implementation of
\* u runs, and never because another target entry is being invoked
C30_EntryItemMatchesOwnInvocation ==
    \A i \in CallFrames : \A t, u \in Targets :
        BodyOf(t, i - 1) =>
            \A j \in 1..Len(rules[t]) :
                rules[t][j].selector = new_selector(<<u, t>>)
                    => (j \in {stack[i].matched[n] : n \in 1..Len(stack[i].matched)}
                          <=> \E k \in (i + 1)..Len(stack) : BodyOf(u, k))

\* the rules [F, F] and [G, F] are registered, in this order, and F is
\* invoked inside G: only [G, F] applies, and X runs
C30_Witness ==
    /\ Len(stack) = 4
    /\ stack[3].code = Interface("G")
    /\ stack[2].code = CallCode
    /\ stack[2].self = "F"
    /\ stack[1].code = "X"
    /\ Len(rules["F"]) = 2
    /\ rules["F"][1].selector = new_selector(<<"F", "F">>)
    /\ rules["F"][2].selector = new_selector(<<"G", "F">>)
    /\ stack[2].matched = <<2>>

----------------------------------------------------------------------------
(* Class-method items *)

\* the frame is executing a method named func_name on an instance whose
\* runtime class is cls or a subclass of cls
ExecutesMethodOn(frame, cls, func_name) ==
    /\ frame.code \in MethodCodes
    /\ co_name(frame.code) = func_name
    /\ issubclass(frame.locals["self"], cls)

\* C16: a class-method item (C, m) matches a frame iff the frame is executing
\* a method named m and the runtime class of the frame's instance is C or a
\* subclass of C
C16_ClassItemMatchesRuntimeClass ==
    \A x \in ClassTuples : \A i \in 1..Len(stack) :
        ItemMatches(new_selector_item(x), stack[i])
            <=> ExecutesMethodOn(stack[i], ClassTuple(x)[1], ClassTuple(x)[2])

----------------------------------------------------------------------------
(* Context items *)

\* a scope of the context type is entered and not yet left
Entered(context) == \E n \in 1..Len(scopes) : scopes[n].context = context

\* C17: the item for context type X matches iff a scope of X itself is
\* entered, whatever scopes of other context types are entered and whichever
\* frame is examined
C17_ContextItemMatchesOwnScope ==
    \A context \in Contexts : \A frame \in Frames :
        ItemMatches(new_selector_item(context), frame) <=> Entered(context)

\* C18: with scopes of one context type, properly nested and left normally or
\* by exception, the item matches exactly when at least one scope is open
C18_ContextActiveWhileAnyScopeOpen ==
    \A frame \in Frames :
        ItemMatches(ChoiceContextSelectorItem("CtxX"), frame) <=> scopes # <<>>

====
